---- MODULE Spec2Model ----
(***************************************************************************)
(* Block-wise dependency scheduler of daisy.                               *)
(*                                                                         *)
(*   src/daisy/blocks.py          create_dependency_graph and its helpers  *)
(*   src/daisy/dask_scheduler.py  run_blockwise, check_and_run             *)
(*                                                                         *)
(* Coordinate, Roi and Block live in modules of the repository that are    *)
(* imported by blocks.py (.coordinate, .roi, .block); their operations are *)
(* modelled from the specification's data model (sections 3 and 4.1).      *)
(*                                                                         *)
(* Spec     : create_dependency_graph, one step per level of the loop.     *)
(* SpecRun  : run_blockwise, one step per call of a callback.              *)
(***************************************************************************)
EXTENDS Integers, Sequences, FiniteSets, TLC

VARIABLES
    total_roi,               \* argument total_roi
    block_read_roi,          \* argument block_read_roi (read_roi)
    block_write_roi,         \* argument block_write_roi (write_roi)
    read_write_conflict,     \* argument read_write_conflict
    fit,                     \* argument fit
    pc,                      \* position in create_dependency_graph / run_blockwise
    level_stride,            \* local of create_dependency_graph
    level_offsets,           \* local of create_dependency_graph
    level_conflict_offsets,  \* local of create_dependency_graph
    level,                   \* loop variable of the second loop (1-based)
    blocks,                  \* the list being built / returned: <<block, upstream>>
    block_levels,            \* history: level that emitted blocks[i]
    tasks,                   \* run_blockwise: task name -> <<block, upstream names>>
    task_state,              \* run_blockwise: task name -> position in check_and_run
    results,                 \* run_blockwise: task name -> outcome of check_and_run
    calls,                   \* history: task name -> callbacks called so far
    returned                 \* value returned by run_blockwise

vars == <<total_roi, block_read_roi, block_write_roi, read_write_conflict, fit,
          pc, level_stride, level_offsets, level_conflict_offsets, level,
          blocks, block_levels, tasks, task_state, results, calls, returned>>

(***************************************************************************)
(* Bounds of the model.                                                    *)
(***************************************************************************)
\* 1-D inputs: shape of total_roi in 0..MaxTotal
MaxTotal == 6
\* 1-D inputs: shape of block_write_roi in 0..MaxWrite
MaxWrite == 2
\* 1-D inputs: left and right context in -1..MaxContext
MaxContext == 2
\* 2-D inputs: shape of total_roi per axis in 1..MaxTotal2
MaxTotal2 == 3
\* 2-D inputs: shape of block_write_roi per axis in 1..MaxWrite2
MaxWrite2 == 2
\* 2-D inputs: left and right context per axis in 0..MaxContext2
MaxContext2 == 1
\* run_blockwise inputs (1-D): shape of total_roi in 1..RunMaxTotal
RunMaxTotal == 4
\* run_blockwise inputs (2-D): shape of total_roi per axis in 1..RunMaxTotal2
RunMaxTotal2 == 3
\* run_blockwise inputs: graphs of at most MaxTasks blocks
MaxTasks == 4

(***************************************************************************)
(* Coordinate: tuple of integers with element-wise arithmetic.             *)
(***************************************************************************)
Dims(a) == Len(a)

CoordAdd(a, b) == [i \in 1..Len(a) |-> a[i] + b[i]]

CoordSub(a, b) == [i \in 1..Len(a) |-> a[i] - b[i]]

(***************************************************************************)
(* Roi: (offset, shape); begin = offset, end = offset + shape.             *)
(***************************************************************************)
Roi(offset, shape) == [offset |-> offset, shape |-> shape]

get_begin(r) == r.offset

get_shape(r) == r.shape

get_end(r) == CoordAdd(r.offset, r.shape)

\* Roi + Coordinate: the Roi translated
RoiShift(r, d) == Roi(CoordAdd(r.offset, d), r.shape)

\* Roi.contains(Coordinate): half-open
contains_point(r, p) ==
    \A i \in 1..Len(p) : get_begin(r)[i] <= p[i] /\ p[i] < get_end(r)[i]

\* Roi.contains(Roi)
contains_roi(r, o) ==
    \A i \in 1..Len(o.offset) :
        get_begin(r)[i] <= get_begin(o)[i] /\ get_end(o)[i] <= get_end(r)[i]

Max(a, b) == IF a >= b THEN a ELSE b

Min(a, b) == IF a <= b THEN a ELSE b

\* Roi.intersect: componentwise max(begin), min(end); shape clamped at 0
intersect(r, o) ==
    LET b == [i \in 1..Len(r.offset) |-> Max(get_begin(r)[i], get_begin(o)[i])]
        e == [i \in 1..Len(r.offset) |-> Min(get_end(r)[i], get_end(o)[i])]
    IN  Roi(b, [i \in 1..Len(r.offset) |-> Max(e[i] - b[i], 0)])

\* Roi.grow(amount_neg, amount_pos)
grow(r, amount_neg, amount_pos) ==
    Roi(CoordSub(r.offset, amount_neg),
        CoordAdd(CoordAdd(r.shape, amount_neg), amount_pos))

\* two Rois share at least one point
intersects(r, o) ==
    \A i \in 1..Len(r.offset) :
        Max(get_begin(r)[i], get_begin(o)[i]) < Min(get_end(r)[i], get_end(o)[i])

(***************************************************************************)
(* Block: block_id is derived from write_roi (and total_roi) when the      *)
(* Block is constructed; it is a field, later assignments to write_roi     *)
(* leave it as it is.                                                      *)
(***************************************************************************)
compute_block_id(total, write_roi) == <<write_roi.offset, write_roi.shape>>

Block(total, read_roi, write_roi) ==
    [block_id |-> compute_block_id(total, write_roi),
     read_roi |-> read_roi,
     write_roi |-> write_roi]

(***************************************************************************)
(* Python builtins used by blocks.py.                                      *)
(***************************************************************************)
\* number of elements of range(lo, e, s), s > 0
RangeLen(lo, e, s) == IF e <= lo THEN 0 ELSE ((e - lo - 1) \div s) + 1

\* list(range(lo, e, s))
range(lo, e, s) == [k \in 1..RangeLen(lo, e, s) |-> lo + (k - 1) * s]

\* list(itertools.product(*lists)): last list varies fastest
RECURSIVE product(_)
product(lists) ==
    IF Len(lists) = 0 THEN << <<>> >>
    ELSE LET head == lists[1]
             rest == product(Tail(lists))
             n    == Len(rest)
         IN  [k \in 1..(Len(head) * n) |->
                 <<head[((k - 1) \div n) + 1]>> \o rest[((k - 1) % n) + 1]]

\* list(reversed(s))
reversed(s) == [k \in 1..Len(s) |-> s[Len(s) + 1 - k]]

RECURSIVE Concat(_)
Concat(ss) == IF Len(ss) = 0 THEN <<>> ELSE ss[1] \o Concat(Tail(ss))

Range(s) == {s[i] : i \in 1..Len(s)}

(***************************************************************************)
(* blocks.py                                                               *)
(***************************************************************************)
\* variant: the assertion is missing
level_stride_defined_unasserted(read_roi, write_roi) ==
    \A i \in 1..Len(write_roi.shape) : write_roi.shape[i] # 0

\* the assertion and the division of compute_level_stride do not fail
level_stride_defined(read_roi, write_roi) ==
    /\ contains_roi(read_roi, write_roi)
    /\ \A i \in 1..Len(write_roi.shape) : write_roi.shape[i] # 0

\* variant: the stride is not rounded up to a multiple of the write shape
compute_level_stride_unrounded(read_roi, write_roi) ==
    LET context_ul  == CoordSub(get_begin(write_roi), get_begin(read_roi))
        context_lr  == CoordSub(get_end(read_roi), get_end(write_roi))
        max_context == [i \in 1..Len(context_ul) |-> Max(context_ul[i], context_lr[i])]
    IN  CoordAdd(max_context, get_shape(write_roi))

\* variant: floor division of the stride itself, plus one
compute_level_stride_floor_plus_one(read_roi, write_roi) ==
    LET context_ul  == CoordSub(get_begin(write_roi), get_begin(read_roi))
        context_lr  == CoordSub(get_end(read_roi), get_end(write_roi))
        max_context == [i \in 1..Len(context_ul) |-> Max(context_ul[i], context_lr[i])]
        min_level_stride == CoordAdd(max_context, get_shape(write_roi))
        write_shape == get_shape(write_roi)
    IN  [i \in 1..Len(write_shape) |->
            ((min_level_stride[i] \div write_shape[i]) + 1) * write_shape[i]]

\* variant: the smaller of the two contexts instead of the larger
compute_level_stride_min_context(read_roi, write_roi) ==
    LET context_ul  == CoordSub(get_begin(write_roi), get_begin(read_roi))
        context_lr  == CoordSub(get_end(read_roi), get_end(write_roi))
        min_context == [i \in 1..Len(context_ul) |-> Min(context_ul[i], context_lr[i])]
        min_level_stride == CoordAdd(min_context, get_shape(write_roi))
        write_shape == get_shape(write_roi)
    IN  [i \in 1..Len(write_shape) |->
            (((min_level_stride[i] - 1) \div write_shape[i]) + 1) * write_shape[i]]

compute_level_stride(read_roi, write_roi) ==
    LET context_ul  == CoordSub(get_begin(write_roi), get_begin(read_roi))
        context_lr  == CoordSub(get_end(read_roi), get_end(write_roi))
        max_context == [i \in 1..Len(context_ul) |-> Max(context_ul[i], context_lr[i])]
        min_level_stride == CoordAdd(max_context, get_shape(write_roi))
        write_shape == get_shape(write_roi)
    IN  [i \in 1..Len(write_shape) |->
            (((min_level_stride[i] - 1) \div write_shape[i]) + 1) * write_shape[i]]

\* variant: the product is not reversed
compute_level_offsets_unreversed(write_roi, stride) ==
    LET write_stride == get_shape(write_roi)
        dim_offsets  == [i \in 1..Len(stride) |-> range(0, stride[i], write_stride[i])]
    IN  product(dim_offsets)

compute_level_offsets(write_roi, stride) ==
    LET write_stride == get_shape(write_roi)
        dim_offsets  == [i \in 1..Len(stride) |-> range(0, stride[i], write_stride[i])]
    IN  reversed(product(dim_offsets))

\* variant: three conflict offsets per axis instead of two
get_conflict_offsets_three_per_axis(level_offset, prev_level_offset, stride) ==
    LET offset_to_prev == CoordSub(prev_level_offset, level_offset)
        conflict_dim_offsets ==
            [i \in 1..Len(stride) |->
                <<offset_to_prev[i] - stride[i], offset_to_prev[i],
                  offset_to_prev[i] + stride[i]>>]
    IN  product(conflict_dim_offsets)

\* variant: a zero offset to the previous level is treated like a negative one
get_conflict_offsets_nonpositive(level_offset, prev_level_offset, stride) ==
    LET offset_to_prev == CoordSub(prev_level_offset, level_offset)
        conflict_dim_offsets ==
            [i \in 1..Len(stride) |->
                IF offset_to_prev[i] <= 0
                THEN <<offset_to_prev[i], offset_to_prev[i] + stride[i]>>
                ELSE <<offset_to_prev[i] - stride[i], offset_to_prev[i]>>]
    IN  product(conflict_dim_offsets)

get_conflict_offsets(level_offset, prev_level_offset, stride) ==
    LET offset_to_prev == CoordSub(prev_level_offset, level_offset)
        conflict_dim_offsets ==
            [i \in 1..Len(stride) |->
                IF offset_to_prev[i] < 0
                THEN <<offset_to_prev[i], offset_to_prev[i] + stride[i]>>
                ELSE <<offset_to_prev[i] - stride[i], offset_to_prev[i]>>]
    IN  product(conflict_dim_offsets)

\* variant: read_write_conflict is not looked at
compute_level_conflict_offsets_always(offsets, stride, rwc) ==
    [l \in 1..Len(offsets) |->
        IF l > 1
        THEN get_conflict_offsets(offsets[l], offsets[l - 1], stride)
        ELSE <<>>]

\* variant: prev_level_offset is updated before it is used
compute_level_conflict_offsets_prev_is_current(offsets, stride, rwc) ==
    [l \in 1..Len(offsets) |->
        IF l > 1 /\ rwc
        THEN get_conflict_offsets(offsets[l], offsets[l], stride)
        ELSE <<>>]

\* first loop of create_dependency_graph
compute_level_conflict_offsets(offsets, stride, rwc) ==
    [l \in 1..Len(offsets) |->
        IF l > 1 /\ rwc
        THEN get_conflict_offsets(offsets[l], offsets[l - 1], stride)
        ELSE <<>>]

\* variant: the read ROI is clipped, the write ROI is left as it is
shrink_keeps_write(total, block) ==
    [block EXCEPT !.read_roi = intersect(total, block.read_roi)]

\* variant: the write ROI is clipped to the total ROI like the read ROI
shrink_clips_write(total, block) ==
    [block EXCEPT !.read_roi = intersect(total, block.read_roi),
                  !.write_roi = intersect(total, block.write_roi)]

\* shrink assigns block.read_roi and block.write_roi and returns the block
shrink(total, block) ==
    LET r == intersect(total, block.read_roi)
        w == grow(block.write_roi,
                  CoordSub(get_begin(block.read_roi), get_begin(r)),
                  CoordSub(get_end(r), get_end(block.read_roi)))
    IN  [block EXCEPT !.read_roi = r, !.write_roi = w]

\* variant: the emptiness of the shrunk write ROI is not tested
shrink_possible_begin_only(total, block) ==
    contains_point(total, get_begin(block.write_roi))

shrink_possible(total, block) ==
    IF ~contains_point(total, get_begin(block.write_roi))
    THEN FALSE
    ELSE LET b == shrink(total, block)
         IN  \A i \in 1..Len(b.write_roi.shape) : b.write_roi.shape[i] > 0

\* the block as shrink_possible leaves it: shrink works on the caller's object
after_shrink_possible(total, block) ==
    IF ~contains_point(total, get_begin(block.write_roi))
    THEN block
    ELSE shrink(total, block)

Fits == {"valid", "overhang", "shrink"}

\* variant: valid tests the write ROI instead of the read ROI
inclusion_criteria_valid_by_write(f, total, b) ==
    CASE f = "valid"    -> contains_roi(total, b.write_roi)
      [] f = "overhang" -> contains_point(total, get_begin(b.write_roi))
      [] f = "shrink"   -> shrink_possible(total, b)

inclusion_criteria(f, total, b) ==
    CASE f = "valid"    -> contains_roi(total, b.read_roi)
      [] f = "overhang" -> contains_point(total, get_begin(b.write_roi))
      [] f = "shrink"   -> shrink_possible(total, b)

\* the block after inclusion_criteria(b) was evaluated
after_inclusion_criteria(f, total, b) ==
    IF f = "shrink" THEN after_shrink_possible(total, b) ELSE b

fit_block(f, total, b) ==
    CASE f = "valid"    -> b
      [] f = "overhang" -> b
      [] f = "shrink"   -> shrink(total, b)

\* inner loop of enumerate_blocks: the conflicts of an included block
conflicts_of(f, total, block, conflict_offsets) ==
    LET candidates == [k \in 1..Len(conflict_offsets) |->
                          Block(total,
                                RoiShift(block.read_roi, conflict_offsets[k]),
                                RoiShift(block.write_roi, conflict_offsets[k]))]
        included   == SelectSeq(candidates, LAMBDA c : inclusion_criteria(f, total, c))
    IN  [k \in 1..Len(included) |->
            fit_block(f, total, after_inclusion_criteria(f, total, included[k]))]

enumerate_blocks(total, read_roi, write_roi, conflict_offsets, block_offsets, f) ==
    LET candidates == [k \in 1..Len(block_offsets) |->
                          Block(total,
                                RoiShift(read_roi, block_offsets[k]),
                                RoiShift(write_roi, block_offsets[k]))]
        included   == SelectSeq(candidates, LAMBDA b : inclusion_criteria(f, total, b))
    IN  [k \in 1..Len(included) |->
            LET block == after_inclusion_criteria(f, total, included[k])
            IN  <<fit_block(f, total, block),
                  conflicts_of(f, total, block, conflict_offsets)>>]

\* variant: the offsets are moved to the begin of the total ROI only
level_block_offsets_from_total(total, read_roi, level_offset, stride) ==
    LET total_shape == get_shape(total)
        block_dim_offsets ==
            [i \in 1..Len(stride) |-> range(level_offset[i], total_shape[i], stride[i])]
        relative == product(block_dim_offsets)
    IN  [k \in 1..Len(relative) |-> CoordAdd(relative[k], get_begin(total))]

\* variant: the product of the per-axis offsets is walked backwards
level_block_offsets_reversed(total, read_roi, level_offset, stride) ==
    LET total_shape == get_shape(total)
        block_dim_offsets ==
            [i \in 1..Len(stride) |-> range(level_offset[i], total_shape[i], stride[i])]
        relative == reversed(product(block_dim_offsets))
    IN  [k \in 1..Len(relative) |->
            CoordAdd(relative[k], CoordSub(get_begin(total), get_begin(read_roi)))]

\* block offsets of one level, in global coordinates
level_block_offsets(total, read_roi, level_offset, stride) ==
    LET total_shape == get_shape(total)
        block_dim_offsets ==
            [i \in 1..Len(stride) |-> range(level_offset[i], total_shape[i], stride[i])]
        relative == product(block_dim_offsets)
    IN  [k \in 1..Len(relative) |->
            CoordAdd(relative[k], CoordSub(get_begin(total), get_begin(read_roi)))]

\* variant: the fit is looked up when the first block is tested
enumerate_blocks_fails_in_loop(f, block_offsets) ==
    f \notin Fits /\ Len(block_offsets) > 0

\* lines 249-259: the lookup of fit in the two dicts raises KeyError, before
\* the loop over block_offsets
enumerate_blocks_fails(f, block_offsets) == f \notin Fits

\* body of the second loop of create_dependency_graph for one level
enumerate_level(total, read_roi, write_roi, rwc, f, l) ==
    LET stride  == compute_level_stride(read_roi, write_roi)
        offsets == compute_level_offsets(write_roi, stride)
        conflict_offsets == compute_level_conflict_offsets(offsets, stride, rwc)
    IN  enumerate_blocks(total, read_roi, write_roi, conflict_offsets[l],
                         level_block_offsets(total, read_roi, offsets[l], stride), f)

\* create_dependency_graph raises instead of returning
create_dependency_graph_fails(total, read_roi, write_roi, rwc, f) ==
    \/ ~level_stride_defined(read_roi, write_roi)
    \/ LET stride  == compute_level_stride(read_roi, write_roi)
           offsets == compute_level_offsets(write_roi, stride)
       IN  \E l \in 1..Len(offsets) :
               enumerate_blocks_fails(
                   f, level_block_offsets(total, read_roi, offsets[l], stride))

create_dependency_graph(total, read_roi, write_roi, rwc, f) ==
    LET stride  == compute_level_stride(read_roi, write_roi)
        offsets == compute_level_offsets(write_roi, stride)
    IN  Concat([l \in 1..Len(offsets) |->
                   enumerate_level(total, read_roi, write_roi, rwc, f, l)])

(***************************************************************************)
(* Inputs.                                                                 *)
(***************************************************************************)
\* a read ROI and a write ROI with left context cl and right context cr
Geometry(tb, ts, rb, w, cl, cr) ==
    [total |-> Roi(tb, ts),
     read  |-> Roi(rb, CoordAdd(CoordAdd(cl, w), cr)),
     write |-> Roi(CoordAdd(rb, cl), w)]

\* 1-D, including read ROIs that do not contain the write ROI and empty write ROIs
Axes1 ==
    {a \in (0..MaxTotal) \X (0..MaxWrite) \X (-1..MaxContext) \X (-1..MaxContext) :
        a[2] + a[3] + a[4] >= 0}

Inputs1 ==
    {Geometry(<<tb>>, <<a[1]>>, <<rb>>, <<a[2]>>, <<a[3]>>, <<a[4]>>) :
        tb \in {0, 1}, rb \in {-1, 0}, a \in Axes1}

Axes2 ==
    {<<ts, w, cl, cr>> :
        ts \in 1..MaxTotal2, w \in 1..MaxWrite2,
        cl \in 0..MaxContext2, cr \in 0..MaxContext2}

\* 2-D, valid geometry
Inputs2 ==
    {Geometry(<<1, 0>>, <<a[1], b[1]>>, <<0, -1>>,
              <<a[2], b[2]>>, <<a[3], b[3]>>, <<a[4], b[4]>>) :
        a \in Axes2, b \in Axes2}

\* 1-D, valid geometry, for run_blockwise
InputsRun ==
    {Geometry(<<0>>, <<ts>>, <<0>>, <<w>>, <<cl>>, <<cr>>) :
        ts \in 1..RunMaxTotal, w \in 1..MaxWrite,
        cl \in 0..MaxContext, cr \in 0..MaxContext}

\* 2-D, unit write ROI with right context, for run_blockwise
InputsRun2 ==
    {Geometry(<<0, 0>>, <<tx, ty>>, <<0, 0>>, <<1, 1>>, <<0, 0>>, <<cx, cy>>) :
        tx \in 1..RunMaxTotal2, ty \in 1..RunMaxTotal2, cx \in 0..1, cy \in 0..1}

\* history of one task: how often each callback was called and what it did
NoCalls ==
    [pre_check |-> 0, process_function |-> 0, post_check |-> 0,
     skip |-> "none", raised |-> "none", complete |-> "none"]

InitLocals ==
    /\ level_stride = <<>>
    /\ level_offsets = <<>>
    /\ level_conflict_offsets = <<>>
    /\ level = 0
    /\ blocks = <<>>
    /\ block_levels = <<>>
    /\ tasks = <<>>
    /\ task_state = <<>>
    /\ results = <<>>
    /\ calls = <<>>
    /\ returned = "none"

inputs == <<total_roi, block_read_roi, block_write_roi, read_write_conflict, fit>>

run_vars == <<tasks, task_state, results, calls, returned>>

(***************************************************************************)
(* create_dependency_graph, step by step.                                  *)
(***************************************************************************)
Init ==
    /\ \E g \in Inputs1 \cup Inputs2 :
          /\ total_roi = g.total
          /\ block_read_roi = g.read
          /\ block_write_roi = g.write
          /\ fit \in (IF Dims(g.total.shape) = 1 THEN Fits \cup {"unknown"} ELSE Fits)
    /\ read_write_conflict \in BOOLEAN
    /\ pc = "start"
    /\ InitLocals

\* lines 85-111: level stride, level offsets, conflict offsets per level
Plan ==
    /\ pc = "start"
    /\ IF level_stride_defined(block_read_roi, block_write_roi)
       THEN LET stride  == compute_level_stride(block_read_roi, block_write_roi)
                offsets == compute_level_offsets(block_write_roi, stride)
            IN  /\ level_stride' = stride
                /\ level_offsets' = offsets
                /\ level_conflict_offsets' =
                       compute_level_conflict_offsets(offsets, stride, read_write_conflict)
                /\ level' = 1
                /\ pc' = "enumerate"
       ELSE /\ pc' = "failed"
            /\ UNCHANGED <<level_stride, level_offsets, level_conflict_offsets, level>>
    /\ UNCHANGED <<inputs, blocks, block_levels, run_vars>>

\* lines 115-147: one iteration of the loop over the levels
EnumerateLevel ==
    /\ pc = "enumerate"
    /\ level <= Len(level_offsets)
    /\ IF ~enumerate_blocks_fails(
               fit, level_block_offsets(total_roi, block_read_roi,
                                        level_offsets[level], level_stride))
       THEN LET new == enumerate_blocks(
                           total_roi, block_read_roi, block_write_roi,
                           level_conflict_offsets[level],
                           level_block_offsets(total_roi, block_read_roi,
                                               level_offsets[level], level_stride),
                           fit)
            IN  /\ blocks' = blocks \o new
                /\ block_levels' = block_levels \o [k \in 1..Len(new) |-> level]
                /\ level' = level + 1
                /\ pc' = "enumerate"
       ELSE /\ pc' = "failed"
            /\ UNCHANGED <<blocks, block_levels, level>>
    /\ UNCHANGED <<inputs, level_stride, level_offsets, level_conflict_offsets, run_vars>>

\* line 149
Return ==
    /\ pc = "enumerate"
    /\ level > Len(level_offsets)
    /\ pc' = "done"
    /\ UNCHANGED <<inputs, level_stride, level_offsets, level_conflict_offsets,
                   level, blocks, block_levels, run_vars>>

Next == Plan \/ EnumerateLevel \/ Return

Spec == Init /\ [][Next]_vars

(***************************************************************************)
(* dask_scheduler.py                                                       *)
(***************************************************************************)
block_to_dask_name(block) == block.block_id

\* lines 156-166: the dict of tasks; a later block of the same name replaces
\* an earlier one
make_tasks(graph) ==
    LET names == {block_to_dask_name(graph[i][1]) : i \in 1..Len(graph)}
        last(n) == CHOOSE i \in 1..Len(graph) :
                      /\ block_to_dask_name(graph[i][1]) = n
                      /\ \A j \in 1..Len(graph) :
                            block_to_dask_name(graph[j][1]) = n => j <= i
    IN  [n \in names |->
            <<graph[last(n)][1],
              [k \in 1..Len(graph[last(n)][2]) |->
                  block_to_dask_name(graph[last(n)][2][k])]>>]

\* variant: a task also waits for itself
dependencies_with_self(ts, n) == (Range(ts[n][2]) \cap DOMAIN ts) \cup {n}

\* client.get: the tasks a task waits for are the names in its arguments that
\* are keys of the graph; any other name is passed on as a plain string
dependencies(ts, n) == Range(ts[n][2]) \cap DOMAIN ts

\* check_and_run, lines 236-238
check_and_run_skips(skip) == skip

\* variant: the result of post_check is not looked at
check_and_run_outcome_unchecked(raised, complete) ==
    IF raised THEN -2 ELSE 1

\* check_and_run, lines 240-254, once pre_check returned False
check_and_run_outcome(raised, complete) ==
    IF raised THEN -2
    ELSE IF ~complete THEN -1
    ELSE 1

\* lines 213-228: the join of line 226 unpacks each failed task name, a
\* string, into two and indexes the second
run_blockwise_raises(res) == \E n \in DOMAIN res : res[n] = -1

run_blockwise_returns(res) ==
    Cardinality({n \in DOMAIN res : res[n] = -1})
        + Cardinality({n \in DOMAIN res : res[n] = -2}) = 0

BoolStr(b) == IF b THEN "true" ELSE "false"

InitRun ==
    /\ \E g \in InputsRun \cup InputsRun2 :
          /\ total_roi = g.total
          /\ block_read_roi = g.read
          /\ block_write_roi = g.write
    /\ fit \in Fits
    /\ read_write_conflict \in BOOLEAN
    /\ Len(create_dependency_graph(total_roi, block_read_roi, block_write_roi,
                                   read_write_conflict, fit)) <= MaxTasks
    /\ pc = "run_blockwise"
    /\ InitLocals

planner_locals == <<level_stride, level_offsets, level_conflict_offsets, level, block_levels>>

\* lines 134-166 and the submission of line 198
CreateGraph ==
    /\ pc = "run_blockwise"
    /\ IF create_dependency_graph_fails(total_roi, block_read_roi, block_write_roi,
                                        read_write_conflict, fit)
       THEN /\ pc' = "failed"
            /\ UNCHANGED <<blocks, tasks, task_state, results, calls>>
       ELSE LET graph == create_dependency_graph(total_roi, block_read_roi,
                                                 block_write_roi, read_write_conflict, fit)
                ts    == make_tasks(graph)
            IN  /\ blocks' = graph
                /\ tasks' = ts
                /\ task_state' = [n \in DOMAIN ts |-> "waiting"]
                /\ results' = [n \in DOMAIN ts |-> "none"]
                /\ calls' = [n \in DOMAIN ts |-> NoCalls]
                /\ pc' = "get"
    /\ UNCHANGED <<inputs, planner_locals, returned>>

\* a worker starts check_and_run for a task whose dependencies have returned:
\* pre_check, and the call of process_function
Launch(n) ==
    /\ pc = "get"
    /\ task_state[n] = "waiting"
    /\ \A d \in dependencies(tasks, n) : task_state[d] = "done"
    /\ \E skip \in BOOLEAN :
          IF check_and_run_skips(skip)
          THEN /\ task_state' = [task_state EXCEPT ![n] = "done"]
               /\ results' = [results EXCEPT ![n] = 0]
               /\ calls' = [calls EXCEPT ![n].pre_check = @ + 1,
                                         ![n].skip = BoolStr(skip)]
          ELSE /\ task_state' = [task_state EXCEPT ![n] = "processing"]
               /\ calls' = [calls EXCEPT ![n].pre_check = @ + 1,
                                         ![n].skip = BoolStr(skip),
                                         ![n].process_function = @ + 1]
               /\ UNCHANGED results
    /\ UNCHANGED <<inputs, planner_locals, blocks, tasks, pc, returned>>

\* process_function returns or raises; post_check is called only when it
\* returned, so its answer is drawn only then
Finish(n) ==
    /\ pc = "get"
    /\ task_state[n] = "processing"
    /\ \E raised \in BOOLEAN, complete \in BOOLEAN :
          /\ raised => complete
          /\ task_state' = [task_state EXCEPT ![n] = "done"]
          /\ results' = [results EXCEPT ![n] = check_and_run_outcome(raised, complete)]
          /\ calls' = [calls EXCEPT
                          ![n].raised = BoolStr(raised),
                          ![n].post_check = IF raised THEN @ ELSE @ + 1,
                          ![n].complete = IF raised THEN @ ELSE BoolStr(complete)]
    /\ UNCHANGED <<inputs, planner_locals, blocks, tasks, pc, returned>>

\* lines 198-228: client.get returned the results of all tasks
ReturnRun ==
    /\ pc = "get"
    /\ \A n \in DOMAIN tasks : task_state[n] = "done"
    /\ IF run_blockwise_raises(results)
       THEN /\ pc' = "raised"
            /\ UNCHANGED returned
       ELSE /\ pc' = "returned"
            /\ returned' = BoolStr(run_blockwise_returns(results))
    /\ UNCHANGED <<inputs, planner_locals, blocks, tasks, task_state, results, calls>>

NextRun ==
    \/ CreateGraph
    \/ \E n \in DOMAIN tasks : Launch(n)
    \/ \E n \in DOMAIN tasks : Finish(n)
    \/ ReturnRun

SpecRun == InitRun /\ [][NextRun]_vars

(***************************************************************************)
(* Properties.                                                             *)
(***************************************************************************)
\* the emitted block at position i and its upstream list
BlockAt(i) == blocks[i][1]

UpstreamAt(i) == blocks[i][2]

Positions == 1..Len(blocks)

\* neither block reads what the other writes
Independent(a, b) ==
    /\ ~intersects(a.read_roi, b.write_roi)
    /\ ~intersects(a.write_roi, b.read_roi)

\* the block was changed by shrink
Shrunk(b) == b.write_roi.shape # block_write_roi.shape

\* C1: with read_write_conflict=true, no two blocks whose process_function
\* runs at the same time have the read_roi of one intersecting the write_roi
\* of the other (every task waits for the tasks its upstream list names)
C1_NoConcurrentConflict ==
    read_write_conflict =>
        \A m \in DOMAIN tasks : \A n \in DOMAIN tasks :
            (m # n /\ task_state[m] = "processing" /\ task_state[n] = "processing")
                => Independent(tasks[m][1], tasks[n][1])

\* C2: two distinct blocks emitted for the same level are independent:
\* the write_roi of one does not intersect the read_roi of the other
C2_IntraLevelIndependence ==
    \A i \in Positions : \A j \in Positions :
        (i # j /\ block_levels[i] = block_levels[j])
            => Independent(BlockAt(i), BlockAt(j))

C2_Witness ==
    /\ pc = "done"
    /\ fit = "shrink"
    /\ \E i \in Positions : \E j \in Positions :
          /\ i # j
          /\ block_levels[i] = block_levels[j]
          /\ Shrunk(BlockAt(j))
          /\ Len(level_offsets) > 1

\* C3: with read_write_conflict=true, every block a of level L-1 whose
\* write_roi intersects the read_roi of a block b of level L is in b's
\* upstream list (equal write_roi and block_id)
C3_CrossLevelConflictCapture ==
    read_write_conflict =>
        \A j \in Positions : \A i \in Positions :
            (/\ block_levels[i] + 1 = block_levels[j]
             /\ intersects(BlockAt(i).write_roi, BlockAt(j).read_roi))
                => \E k \in 1..Len(UpstreamAt(j)) :
                      /\ UpstreamAt(j)[k].write_roi = BlockAt(i).write_roi
                      /\ UpstreamAt(j)[k].block_id = BlockAt(i).block_id

\* C4: every block of an upstream list is an emitted block at a strictly
\* earlier position, emitted for a strictly earlier level
C4_UpstreamEmittedEarlier ==
    \A j \in Positions : \A k \in 1..Len(UpstreamAt(j)) :
        \E i \in 1..(j - 1) :
            /\ BlockAt(i) = UpstreamAt(j)[k]
            /\ block_levels[i] < block_levels[j]

\* C5: the read_roi of every emitted block and of every upstream block
\* contains its write_roi
C5_ReadContainsWrite ==
    \A i \in Positions :
        /\ contains_roi(BlockAt(i).read_roi, BlockAt(i).write_roi)
        /\ \A k \in 1..Len(UpstreamAt(i)) :
              contains_roi(UpstreamAt(i)[k].read_roi, UpstreamAt(i)[k].write_roi)

C5_Witness ==
    /\ pc = "done"
    /\ fit = "shrink"
    /\ \E i \in Positions :
          /\ Shrunk(BlockAt(i))
          /\ \E k \in 1..Len(UpstreamAt(i)) : Shrunk(UpstreamAt(i)[k])

\* the outcome of an upstream task of n is failed check (-1) or errored (-2)
UpstreamFailed(n) ==
    \E k \in 1..Len(tasks[n][2]) :
        /\ tasks[n][2][k] \in DOMAIN tasks
        /\ task_state[tasks[n][2][k]] = "done"
        /\ results[tasks[n][2][k]] \in {-1, -2}

\* C6: the process_function of a block whose upstream list contains a block
\* that ended with outcome -1 or -2 is not called
C6_NoLaunchAfterFailedUpstream ==
    \A n \in DOMAIN tasks : UpstreamFailed(n) => calls[n].process_function = 0

\* C7: run_blockwise returns a boolean and does not raise: True when every
\* outcome is 1 or 0, False when some outcome is -1 or -2
C7_AggregateResult ==
    pc \in {"returned", "raised"} =>
        /\ pc = "returned"
        /\ returned = BoolStr(\A n \in DOMAIN tasks : results[n] \in {0, 1})

\* C8: check_and_run gives each block one outcome: 0 when pre_check is true,
\* without calling process_function or post_check; else -2 when
\* process_function raises, without calling post_check; else -1 when
\* post_check is false; else 1
C8_OutcomeOfCheckAndRun ==
    \A n \in DOMAIN tasks :
        LET c == calls[n] IN
        IF task_state[n] = "done"
        THEN /\ c.pre_check = 1
             /\ c.skip = "true" =>
                   (results[n] = 0 /\ c.process_function = 0 /\ c.post_check = 0)
             /\ (c.skip = "false" /\ c.raised = "true") =>
                   (results[n] = -2 /\ c.process_function = 1 /\ c.post_check = 0)
             /\ (c.skip = "false" /\ c.raised = "false" /\ c.complete = "false") =>
                   (results[n] = -1 /\ c.process_function = 1 /\ c.post_check = 1)
             /\ (c.skip = "false" /\ c.raised = "false" /\ c.complete = "true") =>
                   (results[n] = 1 /\ c.process_function = 1 /\ c.post_check = 1)
             /\ results[n] \in {0, 1, -1, -2}
        ELSE results[n] = "none"

C8_Witness ==
    /\ pc = "get"
    /\ \E n \in DOMAIN tasks : task_state[n] = "done" /\ calls[n].raised = "true"
    /\ \E n \in DOMAIN tasks : task_state[n] = "done" /\ calls[n].skip = "true"
    /\ \E n \in DOMAIN tasks : task_state[n] = "done" /\ calls[n].complete = "false"
    /\ \E n \in DOMAIN tasks : task_state[n] = "done" /\ calls[n].complete = "true"

\* the translates of (read_roi, write_roi) whose read_roi begins at
\* total_roi.begin + k*write_shape, k >= 0
CanonicalTranslates ==
    LET N == Dims(total_roi.shape)
        ks == [1..N -> 0..MaxTotal]
        shift(k) == [i \in 1..N |->
                        get_begin(total_roi)[i] - get_begin(block_read_roi)[i]
                            + k[i] * block_write_roi.shape[i]]
    IN  {<<RoiShift(block_read_roi, shift(k)), RoiShift(block_write_roi, shift(k))>> :
            k \in ks}

\* C9: with fit=valid the emitted blocks are, each exactly once, the
\* canonical translates whose read_roi is contained in total_roi
C9_ValidCoverage ==
    (pc = "done" /\ fit = "valid") =>
        /\ {<<BlockAt(i).read_roi, BlockAt(i).write_roi>> : i \in Positions}
               = {t \in CanonicalTranslates : contains_roi(total_roi, t[1])}
        /\ \A i \in Positions : \A j \in Positions :
              i # j => BlockAt(i).write_roi # BlockAt(j).write_roi

C9_Witness ==
    /\ pc = "done"
    /\ fit = "valid"
    /\ Len(level_offsets) > 1
    /\ Len(blocks) > Len(level_offsets)
    /\ \E t \in CanonicalTranslates :
          /\ contains_roi(total_roi, t[2])
          /\ ~contains_roi(total_roi, t[1])

\* left and right context of a block
ContextUL(read_roi, write_roi) == CoordSub(get_begin(write_roi), get_begin(read_roi))

ContextLR(read_roi, write_roi) == CoordSub(get_end(read_roi), get_end(write_roi))

SameContext(b) ==
    /\ ContextUL(b.read_roi, b.write_roi) = ContextUL(block_read_roi, block_write_roi)
    /\ ContextLR(b.read_roi, b.write_roi) = ContextLR(block_read_roi, block_write_roi)

\* C10: with fit=shrink every emitted block and every upstream block has
\* the left and right context of the input read and write ROIs
C10_ShrinkPreservesContext ==
    fit = "shrink" =>
        \A i \in Positions :
            /\ SameContext(BlockAt(i))
            /\ \A k \in 1..Len(UpstreamAt(i)) : SameContext(UpstreamAt(i)[k])

C10_Witness ==
    /\ pc = "done"
    /\ fit = "shrink"
    /\ Dims(total_roi.shape) = 2
    /\ \E i \in Positions :
          /\ BlockAt(i).read_roi.shape # block_read_roi.shape
          /\ \E k \in 1..Len(UpstreamAt(i)) :
                UpstreamAt(i)[k].read_roi.shape # block_read_roi.shape

\* the block lies in total_roi and writes at least one point
InsideAndNonEmpty(b) ==
    /\ contains_roi(total_roi, b.read_roi)
    /\ contains_roi(total_roi, b.write_roi)
    /\ \A i \in 1..Len(b.write_roi.shape) : b.write_roi.shape[i] > 0

\* C11: with fit=shrink every emitted block and every upstream block has its
\* read_roi and write_roi inside total_roi and a write shape that is positive
\* in every axis
C11_ShrinkInsideTotal ==
    fit = "shrink" =>
        \A i \in Positions :
            /\ InsideAndNonEmpty(BlockAt(i))
            /\ \A k \in 1..Len(UpstreamAt(i)) : InsideAndNonEmpty(UpstreamAt(i)[k])

C11_Witness ==
    /\ pc = "done"
    /\ fit = "shrink"
    /\ \E i \in Positions :
          /\ ~contains_roi(total_roi,
                           RoiShift(block_read_roi,
                                    CoordSub(get_begin(BlockAt(i).read_roi),
                                             get_begin(block_read_roi))))
          /\ get_end(BlockAt(i).read_roi) = get_end(total_roi)
          /\ Len(UpstreamAt(i)) > 0

\* the (read_roi, write_roi) of the blocks of a graph, in order
RoisOf(graph) == [i \in 1..Len(graph) |-> <<graph[i][1].read_roi, graph[i][1].write_roi>>]

\* C12: with read_write_conflict=false the blocks emitted are those emitted
\* with read_write_conflict=true for the same inputs, in the same order, and
\* every upstream list is empty
C12_NoConflictSameBlocks ==
    (pc = "done" /\ ~read_write_conflict) =>
        /\ RoisOf(blocks) = RoisOf(create_dependency_graph(
                                total_roi, block_read_roi, block_write_roi, TRUE, fit))
        /\ \A i \in Positions : UpstreamAt(i) = <<>>

C12_Witness ==
    /\ pc = "done"
    /\ ~read_write_conflict
    /\ Len(blocks) > 2
    /\ LET graph == create_dependency_graph(
                        total_roi, block_read_roi, block_write_roi, TRUE, fit)
       IN  \E i \in 1..Len(graph) : Len(graph[i][2]) > 1

ZeroCoord(n) == [i \in 1..n |-> 0]

\* C13: no block is in its own upstream list: no conflict offset is the zero
\* translation, and no upstream block has the block_id or the write_roi of
\* the block that lists it
C13_NoSelfDependency ==
    /\ \A l \in 1..Len(level_conflict_offsets) :
          \A k \in 1..Len(level_conflict_offsets[l]) :
              level_conflict_offsets[l][k] # ZeroCoord(Len(level_stride))
    /\ \A i \in Positions : \A k \in 1..Len(UpstreamAt(i)) :
          /\ UpstreamAt(i)[k].block_id # BlockAt(i).block_id
          /\ UpstreamAt(i)[k].write_roi # BlockAt(i).write_roi

C13_Witness ==
    /\ pc = "done"
    /\ Dims(total_roi.shape) = 2
    /\ \E i \in Positions : Len(UpstreamAt(i)) > 2
    /\ \E l \in 1..Len(level_conflict_offsets) :
          \E k \in 1..Len(level_conflict_offsets[l]) :
              level_conflict_offsets[l][k][1] = 0

\* the geometry compute_level_stride rejects
InvalidGeometry ==
    \/ ~contains_roi(block_read_roi, block_write_roi)
    \/ \E i \in 1..Len(block_write_roi.shape) : block_write_roi.shape[i] = 0

\* C14: when block_read_roi does not contain block_write_roi, or a component
\* of the write shape is 0, create_dependency_graph fails before any block
\* is enumerated and returns no graph
C14_InvalidGeometryFails ==
    InvalidGeometry =>
        /\ pc \in {"start", "failed"}
        /\ level = 0
        /\ blocks = <<>>

C14_Witness ==
    /\ pc = "failed"
    /\ fit \in Fits
    /\ contains_roi(block_read_roi, block_write_roi)
    /\ block_write_roi.shape[1] = 0
    /\ total_roi.shape[1] > 0

\* C15: for a fit other than valid, overhang and shrink, and valid geometry,
\* create_dependency_graph fails in the first call of enumerate_blocks and
\* returns no graph, also when no block would be emitted
C15_UnknownFitFails ==
    (fit \notin Fits /\ ~InvalidGeometry) =>
        /\ pc \in {"start", "enumerate", "failed"}
        /\ pc = "enumerate" => level = 1
        /\ blocks = <<>>
        /\ (pc = "enumerate" /\ level <= Len(level_offsets)) =>
              enumerate_blocks_fails(
                  fit, level_block_offsets(total_roi, block_read_roi,
                                           level_offsets[level], level_stride))

C15_Witness ==
    /\ pc = "failed"
    /\ fit \notin Fits
    /\ ~InvalidGeometry
    /\ level = 1
    /\ total_roi.shape[1] = 0

\* C16: no block (block_id) is emitted twice, in the same or in different
\* levels, and the write ROIs of two distinct emitted blocks are disjoint,
\* under every fit
C16_ExclusiveWrite ==
    \A i \in Positions : \A j \in Positions :
        i # j =>
            /\ BlockAt(i).block_id # BlockAt(j).block_id
            /\ ~intersects(BlockAt(i).write_roi, BlockAt(j).write_roi)

C16_Witness ==
    /\ pc = "done"
    /\ fit = "shrink"
    /\ Len(level_offsets) > 1
    /\ \E i \in Positions : \E j \in Positions :
          /\ block_levels[i] # block_levels[j]
          /\ get_end(BlockAt(i).write_roi) = get_begin(BlockAt(j).write_roi)
          /\ Shrunk(BlockAt(j))

\* the blocks create_dependency_graph emits for the inputs of this run with fit f
EmittedWith(f) ==
    IF f = fit
    THEN [i \in 1..Len(blocks) |-> BlockAt(i)]
    ELSE LET g == create_dependency_graph(total_roi, block_read_roi, block_write_roi,
                                          read_write_conflict, f)
         IN  [i \in 1..Len(g) |-> g[i][1]]

IdsOf(bs) == {bs[i].block_id : i \in 1..Len(bs)}

\* the blocks of a equal the blocks of b with the same block_id
SameRois(a, b) ==
    \A i \in 1..Len(a) : \A j \in 1..Len(b) :
        a[i].block_id = b[j].block_id =>
            /\ a[i].read_roi = b[j].read_roi
            /\ a[i].write_roi = b[j].write_roi

\* C17: for equal inputs every block emitted with fit=valid is emitted with
\* fit=shrink and every block emitted with fit=shrink is emitted with
\* fit=overhang; a block emitted with valid has the same ROIs under all three
\* fits; a block emitted with shrink but not with valid has a read_roi that
\* leaves total_roi under overhang and the clipped ROIs under shrink
C17_FitMonotone ==
    pc = "done" =>
        LET V == EmittedWith("valid")
            S == EmittedWith("shrink")
            O == EmittedWith("overhang")
        IN  /\ IdsOf(V) \subseteq IdsOf(S)
            /\ IdsOf(S) \subseteq IdsOf(O)
            /\ SameRois(V, S)
            /\ SameRois(V, O)
            /\ \A i \in 1..Len(S) : \A j \in 1..Len(O) :
                  (S[i].block_id = O[j].block_id /\ S[i].block_id \notin IdsOf(V)) =>
                      /\ ~contains_roi(total_roi, O[j].read_roi)
                      /\ S[i].read_roi = intersect(total_roi, O[j].read_roi)
                      /\ S[i].write_roi = shrink(total_roi, O[j]).write_roi
                      /\ S[i].read_roi # O[j].read_roi

C17_Witness ==
    /\ pc = "done"
    /\ fit = "shrink"
    /\ IdsOf(EmittedWith("valid")) # {}
    /\ IdsOf(EmittedWith("shrink")) # IdsOf(EmittedWith("valid"))
    /\ IdsOf(EmittedWith("overhang")) # IdsOf(EmittedWith("shrink"))

RECURSIVE ProductOf(_)
ProductOf(s) == IF Len(s) = 0 THEN 1 ELSE s[1] * ProductOf(Tail(s))

\* a comes after b in the order of itertools.product: first axis most significant
RECURSIVE LexGreater(_, _)
LexGreater(a, b) ==
    /\ Len(a) > 0
    /\ \/ a[1] > b[1]
       \/ a[1] = b[1] /\ LexGreater(Tail(a), Tail(b))

\* C18: the level offsets are the Cartesian product of the per-axis offsets
\* 0, w[i], 2*w[i], ... below level_stride[i], in reversed product order:
\* their number is the product of level_stride[i] / write_shape[i], level 0
\* is level_stride - write_shape, the last level is the zero offset and no
\* offset occurs twice
C18_LevelOffsets ==
    (pc # "start" /\ ~InvalidGeometry) =>
        LET w == block_write_roi.shape
            N == Len(w)
            n == Len(level_offsets)
        IN  /\ n = ProductOf([i \in 1..N |-> level_stride[i] \div w[i]])
            /\ level_offsets[1] = CoordSub(level_stride, w)
            /\ level_offsets[n] = ZeroCoord(N)
            /\ \A k \in 1..n : \A i \in 1..N :
                  /\ level_offsets[k][i] % w[i] = 0
                  /\ level_offsets[k][i] >= 0
                  /\ level_offsets[k][i] < level_stride[i]
            /\ \A k \in 1..n : \A m \in 1..n :
                  k < m => LexGreater(level_offsets[k], level_offsets[m])

C18_Witness ==
    /\ pc = "done"
    /\ Len(level_stride) = 2
    /\ Len(level_offsets) = 4
    /\ level_offsets[2][1] # level_offsets[2][2]

\* ceil(a / b) for b > 0
Ceil(a, b) == -((-a) \div b)

\* C19: for a read_roi that contains write_roi with positive write shape the
\* level stride is, per axis, ceil((max(context_ul, context_lr) + w) / w) * w,
\* the smallest multiple of the write shape w that is >= max_context + w
C19_StrideIsCeiling ==
    (pc # "start" /\ ~InvalidGeometry) =>
        \A i \in 1..Len(level_stride) :
            LET w  == block_write_roi.shape[i]
                mc == Max(ContextUL(block_read_roi, block_write_roi)[i],
                          ContextLR(block_read_roi, block_write_roi)[i])
            IN  /\ level_stride[i] = Ceil(mc + w, w) * w
                /\ level_stride[i] % w = 0
                /\ level_stride[i] >= mc + w
                /\ level_stride[i] - w < mc + w

C19_Witness ==
    /\ pc = "done"
    /\ Len(level_stride) = 2
    /\ level_stride[1] = block_read_roi.shape[1]
    /\ level_stride[2] > block_read_roi.shape[2]
    /\ ContextUL(block_read_roi, block_write_roi)[2]
           # ContextLR(block_read_roi, block_write_roi)[2]

\* offset of level l-1 relative to level l (levels counted from 1)
OffsetToPrev(l) == CoordSub(level_offsets[l - 1], level_offsets[l])

\* the pair of conflict offsets of axis i for the offset d to the previous level
ConflictPair(d, i) ==
    IF d[i] < 0
    THEN <<d[i], d[i] + level_stride[i]>>
    ELSE <<d[i] - level_stride[i], d[i]>>

\* C20: for every level after the first, with read_write_conflict=true, the
\* conflict offsets are the 2^N distinct vectors of the Cartesian product, in
\* product order, of the per-axis pairs {D[i], D[i] + stride[i]} when D[i] < 0
\* and {D[i] - stride[i], D[i]} when D[i] >= 0, D being the offset of the
\* previous level minus the offset of the level; the first level has none
C20_ConflictOffsets ==
    (pc # "start" /\ ~InvalidGeometry) =>
        /\ Len(level_conflict_offsets) = Len(level_offsets)
        /\ level_conflict_offsets[1] = <<>>
        /\ read_write_conflict =>
              \A l \in 2..Len(level_offsets) :
                  LET N  == Len(level_stride)
                      co == level_conflict_offsets[l]
                  IN  /\ Len(co) = 2^N
                      /\ \A k \in 1..(2^N) : \A i \in 1..N :
                            co[k][i] =
                                ConflictPair(OffsetToPrev(l), i)
                                    [(((k - 1) \div (2^(N - i))) % 2) + 1]
                      /\ \A k \in 1..Len(co) : \A m \in 1..Len(co) :
                            k # m => co[k] # co[m]

C20_Witness ==
    /\ pc = "done"
    /\ read_write_conflict
    /\ Len(level_stride) = 2
    /\ \E l \in 2..Len(level_offsets) : OffsetToPrev(l)[1] = 0
    /\ \E l \in 2..Len(level_offsets) : OffsetToPrev(l)[2] < 0

\* grid origin of a block: the begin of its write ROI at construction
Origin(b) == b.block_id[1]

\* origins of all candidate blocks, level after level, before the fit is applied
CandidateOrigins ==
    Concat([l \in 1..Len(level_offsets) |->
               LET offs == level_block_offsets(total_roi, block_read_roi,
                                               level_offsets[l], level_stride)
               IN  [k \in 1..Len(offs) |->
                       CoordAdd(get_begin(block_write_roi), offs[k])]])

\* C21: all blocks of level L precede all blocks of level L+1; within a level
\* the blocks appear in Cartesian product order of their origins (first axis
\* slowest, each axis ascending); the fit removes blocks without reordering
\* the remaining ones
C21_EmissionOrder ==
    /\ \A i \in Positions : \A j \in Positions :
          i < j =>
              /\ block_levels[i] <= block_levels[j]
              /\ block_levels[i] = block_levels[j] =>
                    LexGreater(Origin(BlockAt(j)), Origin(BlockAt(i)))
    /\ \A i \in Positions : \A a \in 1..Len(level_stride) :
          (Origin(BlockAt(i))[a] - get_begin(block_write_roi)[a]
               - (get_begin(total_roi)[a] - get_begin(block_read_roi)[a])
               - level_offsets[block_levels[i]][a]) % level_stride[a] = 0
    /\ pc = "done" =>
          [i \in 1..Len(blocks) |-> Origin(BlockAt(i))]
              = SelectSeq(CandidateOrigins,
                          LAMBDA o : \E i \in Positions : Origin(BlockAt(i)) = o)

C21_Witness ==
    /\ pc = "done"
    /\ fit = "valid"
    /\ Len(level_stride) = 2
    /\ Len(CandidateOrigins) > Len(blocks)
    /\ \E i \in Positions : \E j \in Positions : \E k \in Positions :
          /\ i < j /\ j < k
          /\ block_levels[i] = block_levels[j]
          /\ block_levels[j] < block_levels[k]
          /\ Origin(BlockAt(i))[1] < Origin(BlockAt(j))[1]

\* the origin o lies on the grid of level l (levels counted from 1)
OnGridOfLevel(o, l) ==
    \A a \in 1..Len(level_stride) :
        (o[a] - get_begin(block_write_roi)[a]
             - (get_begin(total_roi)[a] - get_begin(block_read_roi)[a])
             - level_offsets[l][a]) % level_stride[a] = 0

\* C22: every emitted block in N dimensions has at most 2^N upstream blocks,
\* none listed twice, all of them translates at grid positions of the
\* previous level (blocks of the first level have none); when read_roi equals
\* write_roi there is one level and every upstream list is empty
C22_UpstreamBound ==
    /\ \A i \in Positions :
          LET U == UpstreamAt(i)
              b == BlockAt(i)
          IN  /\ Len(U) <= 2^Len(level_stride)
              /\ block_levels[i] = 1 => U = <<>>
              /\ \A k \in 1..Len(U) : \A m \in 1..Len(U) :
                    k # m => /\ U[k].block_id # U[m].block_id
                             /\ Origin(U[k]) # Origin(U[m])
              /\ \A k \in 1..Len(U) :
                    /\ OnGridOfLevel(Origin(U[k]), block_levels[i] - 1)
                    /\ LET d == CoordSub(Origin(U[k]), Origin(b))
                           t == [b EXCEPT !.read_roi = RoiShift(b.read_roi, d),
                                          !.write_roi = RoiShift(b.write_roi, d)]
                           u == IF fit = "shrink" THEN shrink(total_roi, t) ELSE t
                       IN  /\ U[k].read_roi = u.read_roi
                           /\ U[k].write_roi = u.write_roi
    /\ (pc # "start" /\ ~InvalidGeometry /\ block_read_roi = block_write_roi) =>
          /\ Len(level_offsets) = 1
          /\ \A i \in Positions : UpstreamAt(i) = <<>>

C22_Witness ==
    /\ pc = "done"
    /\ Len(level_stride) = 2
    /\ block_read_roi # block_write_roi
    /\ \E i \in Positions : Len(UpstreamAt(i)) = 4

\* the candidate blocks of all levels as enumerate_blocks constructs them
CandidateBlocks ==
    [k \in 1..Len(CandidateOrigins) |->
        LET d == CoordSub(CandidateOrigins[k], get_begin(block_write_roi))
        IN  Block(total_roi, RoiShift(block_read_roi, d), RoiShift(block_write_roi, d))]

\* C23: with fit=shrink, testing a block for inclusion does not change the
\* block its upstream candidates are derived from, and every upstream block
\* listed for a block has the read_roi and write_roi of the block emitted for
\* the same grid origin in the previous level
C23_InclusionTestKeepsBlock ==
    (pc = "done" /\ fit = "shrink") =>
        /\ \A k \in 1..Len(CandidateBlocks) :
              inclusion_criteria(fit, total_roi, CandidateBlocks[k]) =>
                  after_inclusion_criteria(fit, total_roi, CandidateBlocks[k])
                      = CandidateBlocks[k]
        /\ \A j \in Positions : \A k \in 1..Len(UpstreamAt(j)) :
              \E i \in Positions :
                  /\ block_levels[i] + 1 = block_levels[j]
                  /\ get_begin(BlockAt(i).write_roi) = get_begin(UpstreamAt(j)[k].write_roi)
                  /\ BlockAt(i).read_roi = UpstreamAt(j)[k].read_roi
                  /\ BlockAt(i).write_roi = UpstreamAt(j)[k].write_roi

\* the executor keeps launching tasks whose dependencies have returned, and
\* process_function and post_check come back
SpecRunFair ==
    /\ SpecRun
    /\ WF_vars(\E n \in DOMAIN tasks : Launch(n))
    /\ WF_vars(\E n \in DOMAIN tasks : Finish(n))

Outcomes == {0, 1, -1, -2}

\* every emitted block has a task that returned one of the four outcomes
AllBlocksHaveOutcome ==
    \A i \in Positions :
        LET n == block_to_dask_name(BlockAt(i))
        IN  /\ n \in DOMAIN tasks
            /\ task_state[n] = "done"
            /\ results[n] \in Outcomes

====
